---- MODULE Spec2Model ----
(***************************************************************************)
(* A model of autocv/publication.py: the Publication record classes        *)
(* (JournalArticle, BookChapter, Book), their fingerprinting and reference *)
(* formatting, the author-list shortener and the JSON collection           *)
(* serializer.                                                             *)
(*                                                                         *)
(* Python values are tagged records: None, PStr(s) with s a sequence of    *)
(* one-character strings, PInt(n), PDict(f).  An uncaught Python exception *)
(* is the value Raise(e).  An object is its class (kind) and its instance  *)
(* dictionary d (what vars(obj) returns): a function from attribute names  *)
(* to values.                                                              *)
(***************************************************************************)
EXTENDS Integers, Sequences, FiniteSets, TLC

VARIABLES
    kind,       \* record lifecycle: the class of the record
    d,          \* record lifecycle: the record's instance dictionary, vars(self)
    op,         \* the last operation that ran
    arg,        \* the argument of the last operation (from_dict's mapping)
    ret,        \* the last operation's return value, or Raise(e)
    out,        \* what the last operation printed
    computed,   \* history: get_pub_hash has run on the record with a non-null title
    given,      \* history: from_dict has run with a mapping that has the key 'hash'
    pubs,       \* merge: the list of records handed to serialize_pubs_to_json
    pubdict,    \* merge: the mapping serialize_pubs_to_json returned
    file,       \* merge: the JSON document on disk
    loaded,     \* merge: the mapping load_pubs_from_json returned
    authors,    \* shortener: argument authors
    maxlen,     \* shortener: argument maxlen
    n_to_show   \* shortener: argument n_to_show

vars == <<kind, d, op, arg, ret, out, computed, given, pubs, pubdict, file, loaded,
          authors, maxlen, n_to_show>>

-----------------------------------------------------------------------------
(* Python values *)

None == [t |-> "None"]

PStr(s) == [t |-> "str", v |-> s]

PInt(n) == [t |-> "int", v |-> n]

PDict(f) == [t |-> "dict", v |-> f]

Raise(e) == [t |-> "raise", v |-> e]

IsStr(x) == x.t = "str"

IsInt(x) == x.t = "int"

Raised(x) == x.t = "raise"

\* a value no operation has produced yet
Unset == [t |-> "unset"]

-----------------------------------------------------------------------------
(* Strings *)

Digits == <<"0", "1", "2", "3", "4", "5", "6", "7", "8", "9">>

HexDigits == Digits \o <<"a", "b", "c", "d", "e", "f">>

\* the characters a fingerprint's input is made of once lower-cased; a
\* character's place stands for its UTF-8 byte
Alphabet == HexDigits \o <<"-", ",", ".", " ", "n", "o", "t">>

Ord(c) == CHOOSE i \in 1..Len(Alphabet) : Alphabet[i] = c

UpperToLower ==
    [c \in {"A", "B", "C", "F", "N", "O", "T"} |->
        CASE c = "A" -> "a" [] c = "B" -> "b" [] c = "C" -> "c"
          [] c = "F" -> "f" [] c = "N" -> "n" [] c = "O" -> "o"
          [] c = "T" -> "t"]

RECURSIVE Lower(_)
\* str.lower()
Lower(s) ==
    IF s = <<>> THEN <<>>
    ELSE <<IF Head(s) \in DOMAIN UpperToLower THEN UpperToLower[Head(s)] ELSE Head(s)>>
         \o Lower(Tail(s))

RECURSIVE IntToStr(_)
\* the decimal digits of a natural number
IntToStr(n) ==
    IF n < 10 THEN <<Digits[n + 1]>>
    ELSE IntToStr(n \div 10) \o <<Digits[(n % 10) + 1]>>

\* str(x)
PyStr(x) ==
    CASE x.t = "None" -> <<"N", "o", "n", "e">>
      [] x.t = "str" -> x.v
      [] x.t = "int" -> IntToStr(x.v)

RECURSIVE LStrip(_, _)
LStrip(s, chars) ==
    IF s # <<>> /\ Head(s) \in chars THEN LStrip(Tail(s), chars) ELSE s

RECURSIVE RStrip(_, _)
RStrip(s, chars) ==
    IF s # <<>> /\ s[Len(s)] \in chars THEN RStrip(SubSeq(s, 1, Len(s) - 1), chars) ELSE s

\* str.strip(chars)
Strip(s, chars) == RStrip(LStrip(s, chars), chars)

RECURSIVE Split(_, _)
\* str.split(sep) for a one-character separator: always at least one entry
Split(s, sep) ==
    IF \A i \in 1..Len(s) : s[i] # sep THEN <<s>>
    ELSE LET i == CHOOSE j \in 1..Len(s) :
                      s[j] = sep /\ \A k \in 1..(j - 1) : s[k] # sep
         IN <<SubSeq(s, 1, i - 1)>> \o Split(SubSeq(s, i + 1, Len(s)), sep)

RECURSIVE Join(_, _)
\* sep.join(parts)
Join(parts, sep) ==
    IF parts = <<>> THEN <<>>
    ELSE IF Len(parts) = 1 THEN parts[1]
    ELSE parts[1] \o sep \o Join(Tail(parts), sep)

\* seq[:n] for n >= 0
Take(s, n) == SubSeq(s, 1, IF n < Len(s) THEN n ELSE Len(s))

-----------------------------------------------------------------------------
(* shorten_authorlist *)

EtAl == <<" ", "e", "t", " ", "a", "l", ".">>

\* shorten_authorlist with the comparison against maxlen off by one (>= for >)
shorten_authorlist_ge(a, ml, n) ==
    IF ~IsStr(a) THEN Raise("AttributeError")
    ELSE LET authors_split == Split(a.v, ",")
         IN IF Len(authors_split) >= ml
            THEN PStr(Join(Take(authors_split, n), <<",">>) \o EtAl)
            ELSE a

\* shorten_authorlist(authors, maxlen, n_to_show); authors.split raises
\* AttributeError when authors is not a string
shorten_authorlist(a, ml, n) ==
    IF ~IsStr(a) THEN Raise("AttributeError")
    ELSE LET authors_split == Split(a.v, ",")
         IN IF Len(authors_split) > ml
            THEN PStr(Join(Take(authors_split, n), <<",">>) \o EtAl)
            ELSE a

-----------------------------------------------------------------------------
(* The record classes *)

Kinds == {"journal-article", "book-chapter", "book"}

\* default of Publication.__init__'s etalthresh and of shorten_authorlist's maxlen
DefaultEtAlThresh == 10

\* default of shorten_authorlist's n_to_show and of format_reference_latex's etalnum
DefaultEtAlNum == 3

\* default of get_pub_hash's digest_size
DefaultDigestSize == 8

\* Publication.__init__
Publication(title, year, auth) ==
    [a \in {"title", "year", "authors", "etalthresh", "hash"} |->
        CASE a = "title" -> title
          [] a = "year" -> year
          [] a = "authors" -> auth
          [] a = "etalthresh" -> PInt(DefaultEtAlThresh)
          [] a = "hash" -> None]

\* JournalArticle.__init__ with journal, volume, page and DOI left at their defaults
JournalArticle(title, year, auth) ==
    Publication(title, year, auth) @@
    [a \in {"journal", "volume", "page", "DOI", "PMC", "PMID", "links",
            "reference", "source"} |->
        IF a = "links" THEN PDict(<<>>) ELSE None]

\* BookChapter.__init__ with the other arguments left at their defaults
BookChapter(title, year, auth) ==
    Publication(title, year, auth) @@
    [a \in {"journal", "page", "ISBN", "links", "reference", "source",
            "publisher", "editors"} |->
        IF a = "links" THEN PDict(<<>>) ELSE None]

\* Book.__init__ with the other arguments left at their defaults
Book(title, year, auth) ==
    Publication(title, year, auth) @@
    [a \in {"page", "ISBN", "links", "reference", "source", "publisher",
            "editors"} |->
        IF a = "links" THEN PDict(<<>>) ELSE None]

New(k, title, year, auth) ==
    CASE k = "journal-article" -> JournalArticle(title, year, auth)
      [] k = "book-chapter" -> BookChapter(title, year, auth)
      [] k = "book" -> Book(title, year, auth)

\* the class attribute type
TypeAttr(k) ==
    CASE k = "journal-article" ->
             PStr(<<"j", "o", "u", "r", "n", "a", "l", "-", "a", "r", "t", "i", "c", "l", "e">>)
      [] k = "book-chapter" ->
             PStr(<<"b", "o", "o", "k", "-", "c", "h", "a", "p", "t", "e", "r">>)
      [] k = "book" -> PStr(<<"b", "o", "o", "k">>)

\* the names a class gives its instances besides the instance dictionary: the
\* class attribute type and the methods
ClassAttrs(k) ==
    {"type", "get_pub_hash", "from_dict", "to_json", "format_reference_latex"}
    \cup (IF k = "journal-article" THEN {"from_pubmed"} ELSE {})

\* hasattr(self, name)
HasAttr(k, dict, name) == name \in DOMAIN dict \/ name \in ClassAttrs(k)

\* vars(self) after from_dict(m): setattr for every key hasattr accepts
FromDictResult(k, dict, m) ==
    LET taken == {key \in DOMAIN m : HasAttr(k, dict, key)}
    IN [a \in DOMAIN dict \cup taken |-> IF a \in taken THEN m[a] ELSE dict[a]]

\* Publication.to_json: vars(self)
to_json(dict) == PDict(dict)

-----------------------------------------------------------------------------
(* Publication.get_pub_hash *)

RECURSIVE WeightedSum(_, _)
WeightedSum(bytes, w) ==
    IF bytes = <<>> THEN 0
    ELSE (Ord(Head(bytes)) * w + WeightedSum(Tail(bytes), w + 1)) % 256

HexByte(b) == <<HexDigits[(b \div 16) + 1], HexDigits[(b % 16) + 1]>>

RECURSIVE HexBytes(_, _, _)
HexBytes(bytes, j, digest_size) ==
    IF j > digest_size THEN <<>>
    ELSE HexByte((j + WeightedSum(bytes, j)) % 256) \o HexBytes(bytes, j + 1, digest_size)

\* hashlib.blake2b(bytes, digest_size).hexdigest(): the library's digest is
\* stood for by a deterministic checksum of the same output width,
\* 2 * digest_size hexadecimal characters
Blake2bHex(bytes, digest_size) == HexBytes(bytes, 1, digest_size)

\* '-'.join([str(i) for i in [self.title, self.year, self.authors]])
PubStr(dict) ==
    Join(<<PyStr(dict["title"]), PyStr(dict["year"]), PyStr(dict["authors"])>>, <<"-">>)

\* get_pub_hash with its guard dropped
HashGuardDropped(dict) == FALSE

\* the guard of get_pub_hash: the title is missing
HashTitleMissing(dict) == dict["title"] = None

\* vars(self) after get_pub_hash(digest_size)
GetPubHashResult(dict, digest_size) ==
    IF HashTitleMissing(dict) THEN dict
    ELSE [dict EXCEPT !["hash"] = PStr(Blake2bHex(Lower(PubStr(dict)), digest_size))]

\* what get_pub_hash prints
GetPubHashOut(dict) ==
    IF HashTitleMissing(dict) THEN <<"reference must first be loaded">> ELSE <<>>

-----------------------------------------------------------------------------
(* format_reference_latex *)

TextIt == <<" ", "\\", "t", "e", "x", "t", "i", "t", "{">>

\* ' (%d). ' % year, for a number
YearD(year) == <<" ", "(">> \o IntToStr(year.v) \o <<")", ".", " ">>

\* ' (%s). ' % year
YearS(year) == <<" ", "(">> \o PyStr(year) \o <<")", ".", " ">>

\* format_reference_latex with its guard dropped
FormatGuardDropped(dict) == FALSE

\* the guard of the three formatters: the title is missing
FormatTitleMissing(dict) == dict["title"] = None

\* JournalArticle.format_reference_latex(etalthresh, etalnum)
JournalArticleFormat(dict, etalthresh, etalnum) ==
    IF FormatTitleMissing(dict) THEN None
    ELSE
    LET authors_shortened == shorten_authorlist(dict["authors"], etalthresh, etalnum)
        volume == dict["volume"]
        page == dict["page"]
    IN  IF Raised(authors_shortened) THEN authors_shortened
        ELSE IF ~IsInt(dict["year"]) THEN Raise("TypeError")
        ELSE IF ~IsStr(dict["title"]) THEN Raise("TypeError")
        ELSE IF page # None /\ ~IsStr(page) THEN Raise("TypeError")
        ELSE PStr(authors_shortened.v \o YearD(dict["year"]) \o dict["title"].v
                  \o TextIt \o PyStr(dict["journal"])
                  \o (IF volume # None THEN <<",", " ">> \o PyStr(volume) \o <<"}">>
                      ELSE <<"}">>)
                  \o (IF page # None /\ Len(page.v) > 0 THEN <<",", " ">> \o page.v
                      ELSE <<>>)
                  \o <<".">>)

\* BookChapter.format_reference_latex
BookChapterFormat(k, dict) ==
    IF FormatTitleMissing(dict) THEN None
    ELSE
    LET page == dict["page"]
        publisher == dict["publisher"]
    IN  IF HasAttr(k, dict, "page") /\ ~IsStr(page) THEN Raise("TypeError")
        ELSE IF ~IsStr(dict["authors"]) THEN Raise("TypeError")
        ELSE IF ~IsStr(dict["title"]) THEN Raise("AttributeError")
        ELSE IF ~IsStr(publisher) THEN Raise("AttributeError")
        ELSE PStr(dict["authors"].v \o YearS(dict["year"])
                  \o Strip(dict["title"].v, {"."})
                  \o <<".", " ", "I", "n">> \o TextIt \o PyStr(dict["journal"])
                  \o <<".", "}", " ">>
                  \o (IF Len(page.v) > 0
                      THEN <<"(", "p", ".", " ">> \o page.v \o <<")", ".", " ">>
                      ELSE <<>>)
                  \o Strip(publisher.v, {" "}) \o <<".">>)

\* Book.format_reference_latex
BookFormat(dict) ==
    IF FormatTitleMissing(dict) THEN None
    ELSE
    LET publisher == dict["publisher"]
    IN  IF ~IsStr(dict["authors"]) THEN Raise("TypeError")
        ELSE IF ~IsStr(dict["title"]) THEN Raise("AttributeError")
        ELSE IF ~IsStr(publisher) THEN Raise("AttributeError")
        ELSE PStr(dict["authors"].v \o YearS(dict["year"])
                  \o TextIt \o Strip(Strip(dict["title"].v, {" "}), {"."})
                  \o <<"}", ".", " ">>
                  \o Strip(publisher.v, {" "}) \o <<".">>)

\* format_reference_latex of the record's class
format_reference_latex(k, dict, etalthresh, etalnum) ==
    CASE k = "journal-article" -> JournalArticleFormat(dict, etalthresh, etalnum)
      [] k = "book-chapter" -> BookChapterFormat(k, dict)
      [] k = "book" -> BookFormat(dict)

\* what format_reference_latex prints
FormatOut(dict) ==
    IF FormatTitleMissing(dict) THEN <<"reference must be loaded before formatting">>
    ELSE <<>>

-----------------------------------------------------------------------------
(* The life of one record: construction, from_dict, get_pub_hash,          *)
(* format_reference_latex, to_json                                         *)

Titles == {PStr(<<"F", "o", "o">>), PStr(<<" ", "T", ".">>)}

Years == {PInt(2021)}

AuthorLists == {PStr(<<"A", ",", "B", ",", "C">>)}

\* the field mappings handed to from_dict: keys that are fields of every
\* class, fields of some classes only, the class attribute type, and a name
\* no class knows
FieldMaps ==
    {[title |-> t] : t \in Titles \cup {None}}
    \cup {[year |-> y] : y \in Years}
    \cup {[authors |-> a] : a \in AuthorLists}
    \cup {[journal |-> PStr(<<"J">>), volume |-> PStr(<<"5">>)]}
    \cup {[page |-> pg] : pg \in {PStr(<<>>), PStr(<<"9", ".">>)}}
    \cup {[publisher |-> PStr(<<" ", "P", " ">>), bogus |-> PInt(1)]}
    \cup {[publisher |-> PStr(<<"C", "o", ".">>)]}
    \cup {[hash |-> PStr(<<"a", "b">>)]}
    \cup {[type |-> PStr(<<"b", "o", "o", "k">>)]}

\* the (etalthresh, etalnum) arguments format_reference_latex is called with:
\* the defaults, and a threshold the model's author lists exceed
EtAlArgs == {<<DefaultEtAlThresh, DefaultEtAlNum>>, <<2, 1>>}

NoMerge ==
    /\ pubs = <<>>
    /\ pubdict = Unset
    /\ file = Unset
    /\ loaded = Unset

NoShorten ==
    /\ authors = Unset
    /\ maxlen = 0
    /\ n_to_show = 0

\* a record as its constructor leaves it
Init ==
    /\ kind \in Kinds
    /\ \E t \in Titles \cup {None} : d = New(kind, t, None, None)
    /\ op = "init"
    /\ arg = <<>>
    /\ ret = Unset
    /\ out = <<>>
    /\ computed = FALSE
    /\ given = FALSE
    /\ NoMerge
    /\ NoShorten

FromDict(m) ==
    /\ d' = FromDictResult(kind, d, m)
    /\ op' = "from_dict"
    /\ arg' = m
    /\ ret' = None
    /\ out' = <<>>
    /\ given' = (given \/ "hash" \in DOMAIN m)
    /\ UNCHANGED <<kind, computed, pubs, pubdict, file, loaded, authors, maxlen, n_to_show>>

GetPubHash ==
    /\ d' = GetPubHashResult(d, DefaultDigestSize)
    /\ op' = "get_pub_hash"
    /\ arg' = <<>>
    /\ ret' = None
    /\ out' = GetPubHashOut(d)
    /\ computed' = (computed \/ d["title"] # None)
    /\ UNCHANGED <<kind, given, pubs, pubdict, file, loaded, authors, maxlen, n_to_show>>

FormatReferenceLatex(etalthresh, etalnum) ==
    /\ ret' = format_reference_latex(kind, d, etalthresh, etalnum)
    /\ out' = FormatOut(d)
    /\ op' = "format_reference_latex"
    /\ arg' = <<>>
    /\ UNCHANGED <<kind, d, computed, given, pubs, pubdict, file, loaded, authors,
                   maxlen, n_to_show>>

ToJson ==
    /\ ret' = to_json(d)
    /\ out' = <<>>
    /\ op' = "to_json"
    /\ arg' = <<>>
    /\ UNCHANGED <<kind, d, computed, given, pubs, pubdict, file, loaded, authors,
                   maxlen, n_to_show>>

Next ==
    \/ \E m \in FieldMaps : FromDict(m)
    \/ GetPubHash
    \/ \E e \in EtAlArgs : FormatReferenceLatex(e[1], e[2])
    \/ ToJson

Spec == Init /\ [][Next]_vars

-----------------------------------------------------------------------------
(* serialize_pubs_to_json and load_pubs_from_json *)

\* the suffixes get_random_hash(4) may return: 4 hexadecimal characters
RandomHashes == {<<"0", "0", "0", "0">>, <<"a", "3", "f", "1">>}

\* the loop of serialize_pubs_to_json from record i on: ps is the list (its
\* records' hash fields are rewritten in place), pd the mapping built so far,
\* rand[i] what get_random_hash returns in iteration i, n the collisions
\* reported.  None + str raises TypeError.
RECURSIVE SerializeLoop(_, _, _, _, _)
SerializeLoop(ps, i, pd, rand, n) ==
    IF i > Len(ps) THEN [pubs |-> ps, pubdict |-> pd, raised |-> FALSE, warned |-> n]
    ELSE LET h == ps[i].d["hash"]
             collides == h \in DOMAIN pd
         IN IF collides /\ ~IsStr(h)
            THEN [pubs |-> ps, pubdict |-> pd, raised |-> TRUE, warned |-> n + 1]
            ELSE LET h2 == IF collides THEN PStr(h.v \o rand[i]) ELSE h
                     p2 == [ps[i] EXCEPT !.d["hash"] = h2]
                 IN SerializeLoop([ps EXCEPT ![i] = p2], i + 1,
                                  (h2 :> p2.d) @@ pd, rand,
                                  IF collides THEN n + 1 ELSE n)

\* JSON values
JNull == [j |-> "null"]

JString(s) == [j |-> "string", v |-> s]

JNumber(n) == [j |-> "number", v |-> n]

JObject(f) == [j |-> "object", v |-> f]

\* a dictionary key as json.dump writes it: a JSON string
JsonKey(k) ==
    CASE k.t = "None" -> <<"n", "u", "l", "l">>
      [] k.t = "str" -> k.v
      [] k.t = "int" -> IntToStr(k.v)

RECURSIVE JsonValue(_)
\* a field value as json.dump writes it
JsonValue(x) ==
    CASE x.t = "None" -> JNull
      [] x.t = "str" -> JString(x.v)
      [] x.t = "int" -> JNumber(x.v)
      [] x.t = "dict" -> JObject([key \in DOMAIN x.v |-> JsonValue(x.v[key])])

\* json.dump(pubdict, f): one object, a member per key of pubdict (the keys of
\* the model's mappings stay distinct when written)
JsonDump(pd) ==
    JObject([jk \in {JsonKey(k) : k \in DOMAIN pd} |->
                LET k == CHOOSE key \in DOMAIN pd : JsonKey(key) = jk
                IN JObject([a \in DOMAIN pd[k] |-> JsonValue(pd[k][a])])])

RECURSIVE PyValue(_)
\* a JSON value as json.load returns it
PyValue(x) ==
    CASE x.j = "null" -> None
      [] x.j = "string" -> PStr(x.v)
      [] x.j = "number" -> PInt(x.v)
      [] x.j = "object" -> PDict([key \in DOMAIN x.v |-> PyValue(x.v[key])])

\* json.load(f): the keys of the document come back as strings
JsonLoad(doc) ==
    [k \in {PStr(jk) : jk \in DOMAIN doc.v} |->
        [a \in DOMAIN doc.v[k.v].v |-> PyValue(doc.v[k.v].v[a])]]

\* the longest list handed to serialize_pubs_to_json
MaxPubs == 3

MergeTitles == {PStr(<<"F", "o", "o">>), PStr(<<"F", "O", "O">>)}

\* a record of class k, constructed with (title, year, authors), on which
\* get_pub_hash has run (hashed) or not
MergeRecord(k, t, hashed) ==
    LET dict == New(k, t, PInt(2021), PStr(<<"A", ",", "B">>))
    IN [kind |-> k,
        d |-> IF hashed THEN GetPubHashResult(dict, DefaultDigestSize) ELSE dict]

MergeRecords == {MergeRecord(k, t, b) : k \in Kinds, t \in MergeTitles, b \in BOOLEAN}

NoRecord ==
    /\ kind = "none"
    /\ d = <<>>
    /\ arg = <<>>
    /\ computed = FALSE
    /\ given = FALSE

InitMerge ==
    /\ \E n \in 1..MaxPubs : pubs \in [1..n -> MergeRecords]
    /\ pubdict = Unset
    /\ file = Unset
    /\ loaded = Unset
    /\ op = "init"
    /\ ret = Unset
    /\ out = <<>>
    /\ NoRecord
    /\ NoShorten

SerializePubsToJson(rand) ==
    /\ op = "init"
    /\ LET r == SerializeLoop(pubs, 1, <<>>, rand, 0)
       IN /\ pubs' = r.pubs
          /\ out' = [i \in 1..r.warned |-> "WARNING: hash collision"]
          /\ IF r.raised
             THEN /\ ret' = Raise("TypeError")
                  /\ UNCHANGED <<pubdict, file>>
             ELSE /\ ret' = None
                  /\ pubdict' = r.pubdict
                  /\ file' = JsonDump(r.pubdict)
    /\ op' = "serialize_pubs_to_json"
    /\ UNCHANGED <<kind, d, arg, computed, given, loaded, authors, maxlen, n_to_show>>

LoadPubsFromJson ==
    /\ op = "serialize_pubs_to_json"
    /\ file # Unset
    /\ loaded' = JsonLoad(file)
    /\ op' = "load_pubs_from_json"
    /\ ret' = None
    /\ out' = <<>>
    /\ UNCHANGED <<kind, d, arg, computed, given, pubs, pubdict, file, authors, maxlen,
                   n_to_show>>

NextMerge ==
    \/ \E rand \in [1..Len(pubs) -> RandomHashes] : SerializePubsToJson(rand)
    \/ LoadPubsFromJson

SpecMerge == InitMerge /\ [][NextMerge]_vars

-----------------------------------------------------------------------------
(* shorten_authorlist on its own *)

\* the longest author list
MaxAuthors == 12

AuthorNames == <<<<"A">>, <<" ", "B">>, <<>>, <<"C", " ", "d">>>>

\* a list of k names, the i-th chosen by the stride v
AuthorList(k, v) ==
    PStr(Join([i \in 1..k |-> AuthorNames[((i * v) % Len(AuthorNames)) + 1]], <<",">>))

AuthorInputs == {AuthorList(k, v) : k \in 0..MaxAuthors, v \in 1..3}

MaxLens == {0, 2, 5, DefaultEtAlThresh, MaxAuthors}

NsToShow == {0, 1, DefaultEtAlNum, 5}

InitShorten ==
    /\ authors \in AuthorInputs
    /\ maxlen \in MaxLens
    /\ n_to_show \in NsToShow
    /\ op = "init"
    /\ ret = Unset
    /\ out = <<>>
    /\ NoRecord
    /\ NoMerge

ShortenAuthorlist ==
    /\ op = "init"
    /\ ret' = shorten_authorlist(authors, maxlen, n_to_show)
    /\ op' = "shorten_authorlist"
    /\ UNCHANGED <<kind, d, arg, out, computed, given, pubs, pubdict, file, loaded,
                   authors, maxlen, n_to_show>>

NextShorten == ShortenAuthorlist

SpecShorten == InitShorten /\ [][NextShorten]_vars

-----------------------------------------------------------------------------
(* Properties *)

AllFingerprinted == \A i \in 1..Len(pubs) : pubs[i].d["hash"] # None

\* the records of the list differ from one another in more than the fingerprint
DistinctInputs ==
    \A i, j \in 1..Len(pubs) :
        i # j => [pubs[i] EXCEPT !.d["hash"] = None] # [pubs[j] EXCEPT !.d["hash"] = None]

\* C1: for distinct records that all carry a fingerprint, whatever suffixes the
\* random generator returns, serialize_pubs_to_json overwrites no earlier
\* record: the mapping has as many keys as there are records.
C1_NoOverwrite ==
    (op = "serialize_pubs_to_json" /\ AllFingerprinted /\ DistinctInputs)
        => (~Raised(ret) /\ Cardinality(DOMAIN pubdict) = Len(pubs))

\* C2: load_pubs_from_json applied to the file serialize_pubs_to_json wrote
\* returns the mapping serialize_pubs_to_json returned: same keys, same fields,
\* same values.
C2_RoundTrip ==
    op = "load_pubs_from_json" => (DOMAIN pubdict # {} /\ loaded = pubdict)

\* C3: on a record whose title is null, get_pub_hash and format_reference_latex
\* do not raise, print a message and yield nothing: they return None and leave
\* the record, its fingerprint included, as it was.
C3_NullTitleGuard ==
    [][(d["title"] = None /\ op' \in {"get_pub_hash", "format_reference_latex"})
          => (ret' = None /\ out' # <<>> /\ d' = d)]_vars

C3_Witness ==
    /\ op = "get_pub_hash"
    /\ d["title"] = None
    /\ d["hash"] # None
    /\ d["authors"] # None
    /\ out # <<>>
    /\ ret = None

\* C4: on a record whose title is non-null, format_reference_latex does not
\* raise, whichever of the optional fields are null.
C4_NoRaiseOnMissingOptional ==
    (op = "format_reference_latex" /\ d["title"] # None) => ~Raised(ret)

\* C5: serialize_pubs_to_json completes without raising for any list of
\* records, computed fingerprint or not, and every key of the mapping is a
\* non-null fingerprint string.
C5_KeysAreFingerprints ==
    op = "serialize_pubs_to_json"
        => (~Raised(ret) /\ \A k \in DOMAIN pubdict : IsStr(k))

\* C6: the mapping to_json returns contains the kind of the record's class.
C6_KindExported ==
    op = "to_json" => \E a \in DOMAIN ret.v : ret.v[a] = TypeAttr(kind)

\* C7: after from_dict(m) every attribute that is a key of m holds m's value,
\* every other attribute is unchanged, and the other keys of m are ignored:
\* the attribute names to_json returns are the same before and after.
C7_FromDictFrame ==
    [][op' = "from_dict"
          => /\ \A a \in DOMAIN d :
                   d'[a] = (IF a \in DOMAIN arg' THEN arg'[a] ELSE d[a])
             /\ DOMAIN to_json(d').v = DOMAIN to_json(d).v]_vars

\* the number of comma-separated entries of a string
CountEntries(s) == Cardinality({i \in 1..Len(s) : s[i] = ","}) + 1

IsPrefix(r, s) == Len(r) <= Len(s) /\ SubSeq(s, 1, Len(r)) = r

EndsWith(s, suffix) ==
    Len(suffix) <= Len(s) /\ SubSeq(s, Len(s) - Len(suffix) + 1, Len(s)) = suffix

\* C8: when authors has more than maxlen comma-separated entries,
\* shorten_authorlist returns its first n_to_show entries, commas between them
\* as in the input, followed by ' et al.' (all of them when there are no more
\* than n_to_show); otherwise, exactly maxlen entries included, it returns the
\* input unchanged.
C8_Shorten ==
    op = "shorten_authorlist" =>
        LET count == CountEntries(authors.v)
        IN  IF count > maxlen
            THEN /\ IsStr(ret)
                 /\ EndsWith(ret.v, EtAl)
                 /\ LET r == SubSeq(ret.v, 1, Len(ret.v) - Len(EtAl))
                    IN /\ IsPrefix(r, authors.v)
                       /\ \/ n_to_show = 0 /\ r = <<>>
                          \/ n_to_show >= count /\ r = authors.v
                          \/ /\ 0 < n_to_show
                             /\ n_to_show < count
                             /\ CountEntries(r) = n_to_show
                             /\ authors.v[Len(r) + 1] = ","
            ELSE ret = authors

\* 12 authors, the default threshold 10 and count 3: three names and the suffix
C8_Witness ==
    /\ op = "shorten_authorlist"
    /\ CountEntries(authors.v) = 12
    /\ maxlen = DefaultEtAlThresh
    /\ n_to_show = DefaultEtAlNum
    /\ IsStr(ret)
    /\ CountEntries(ret.v) = 3
    /\ EndsWith(ret.v, EtAl)

\* the fields a class's template renders
TemplateFields(k) ==
    CASE k = "journal-article" -> {"authors", "year", "title", "journal", "volume", "page"}
      [] k = "book-chapter" -> {"authors", "year", "title", "journal", "page", "publisher"}
      [] k = "book" -> {"authors", "year", "title", "publisher"}

\* C9: with the title and every field of the template present, the string
\* format_reference_latex returns ends with exactly one period.
C9_SingleTrailingPeriod ==
    (op = "format_reference_latex" /\ \A a \in TemplateFields(kind) : d[a] # None)
        => /\ IsStr(ret)
           /\ Len(ret.v) >= 2
           /\ ret.v[Len(ret.v)] = "."
           /\ ret.v[Len(ret.v) - 1] # "."

\* C10: the fingerprint is null unless get_pub_hash has run on the record while
\* its title was non-null.
C10_NullUntilComputed == d["hash"] # None => computed

\* C10, amended: the fingerprint is null unless get_pub_hash has run on the
\* record while its title was non-null, or from_dict has been handed a mapping
\* with the key 'hash'.
C10_NullUntilComputedOrGiven == d["hash"] # None => (computed \/ given)

C10_Witness ==
    /\ d["hash"] # None
    /\ given
    /\ ~computed
    /\ op = "format_reference_latex"

====
